---- MODULE Spec2Model ----
(***************************************************************************)
(* Model of the Pipedrive -> Slack notification jobs:                      *)
(*   alert_checker.py  (the alert run: deadline / stagnation alerts)       *)
(*   main.py           (the report run: per-stage company report)          *)
(* Each run is a sequential batch job; pc is the position in its main().   *)
(***************************************************************************)
EXTENDS Integers, Sequences, FiniteSets, TLC

VARIABLES
    run,               \* which script the scheduler started: "alert" or "report"
    pc,                \* position in main(): which call comes next
    cfg,               \* names of the environment variables that are set
    exit_code,         \* -1 while running, else the process exit status
    net,               \* network calls made so far, in order
    log,               \* log records written so far, in order
    deals,             \* alert run: deals returned by get_all_open_deals
    today,             \* alert run: datetime.now().date() read by check_deadline_alerts
    now,               \* alert run: datetime.now(timezone.utc) read by check_stagnation_alerts
    deadline_alerts,   \* alert run: result of check_deadline_alerts
    stagnation_alerts, \* alert run: result of check_stagnation_alerts
    all_alerts,        \* alert run: deadline_alerts + stagnation_alerts
    idx,               \* loop index of the delivery loop in progress
    posts,             \* chat delivery attempts so far, with their outcome
    mode,              \* report run: 'enhanced' / 'legacy' from validate_env_vars
    stages,            \* report run: stages returned by get_pipeline_stages
    fetched,           \* report run: per stage, the deals get_deals_by_stage returned
    stage_companies,   \* report run: the dict built by group_companies_by_stage
    summary,           \* the narrative text: where it came from and what it says
    thread_ts          \* report run: ts returned for the parent message

vars == <<run, pc, cfg, exit_code, net, log, deals, today, now, deadline_alerts,
          stagnation_alerts, all_alerts, idx, posts, mode, stages, fetched,
          stage_companies, summary, thread_ts>>

alertVars == <<deals, today, now, deadline_alerts, stagnation_alerts, all_alerts>>
reportVars == <<mode, stages, fetched, stage_companies, summary, thread_ts>>

(***************************************************************************)
(* Bounds of the model.                                                    *)
(***************************************************************************)
MaxDeals == 2          \* deals in one get_all_open_deals response
MaxStages == 2         \* stages in one pipeline response
MaxStageDeals == 2     \* deals in one get_deals_by_stage response

(***************************************************************************)
(* Strings that carry dates.  A string is modelled by what the parsers     *)
(* can tell apart:                                                         *)
(*   k = "none"      None (no string)                                      *)
(*   k = "empty"     ''                                                    *)
(*   k = "text"      text that is no date                                  *)
(*   k = "date"      'YYYY-MM-DD'                                          *)
(*   k = "datetime"  'YYYY-MM-DD HH:00:00' followed by off, one of         *)
(*                   '' (no offset), 'Z', '+00:00', '+09:00'               *)
(***************************************************************************)
NoneStr == [k |-> "none", y |-> 0, m |-> 0, d |-> 0, hh |-> 0, off |-> ""]
EmptyStr == [k |-> "empty", y |-> 0, m |-> 0, d |-> 0, hh |-> 0, off |-> ""]
TextStr == [k |-> "text", y |-> 0, m |-> 0, d |-> 0, hh |-> 0, off |-> ""]
DateStr(y, m, d) == [k |-> "date", y |-> y, m |-> m, d |-> d, hh |-> 0, off |-> ""]
DateTimeStr(y, m, d, hh, off) ==
    [k |-> "datetime", y |-> y, m |-> m, d |-> d, hh |-> hh, off |-> off]

(***************************************************************************)
(* JSON values of a deal field: absent key, null, string, number, or an    *)
(* object (with or without a 'value' member holding a string or null).     *)
(***************************************************************************)
Absent == [t |-> "absent", s |-> EmptyStr]
Null == [t |-> "null", s |-> EmptyStr]
Str(s) == [t |-> "str", s |-> s]
Num == [t |-> "num", s |-> EmptyStr]
Wrapped(s) == [t |-> "dict", s |-> s]
WrappedNull == Wrapped(NoneStr)
DictNoValue == [t |-> "dictnovalue", s |-> EmptyStr]

\* Python truthiness of a field value (non-zero number, non-empty dict)
Truthy(v) ==
    CASE v.t = "absent" -> FALSE
      [] v.t = "null" -> FALSE
      [] v.t = "str" -> v.s.k # "empty"
      [] OTHER -> TRUE

(***************************************************************************)
(* Calendar arithmetic of datetime: proleptic Gregorian ordinals.          *)
(***************************************************************************)
IsLeap(y) == (y % 4 = 0) /\ ((y % 100 # 0) \/ (y % 400 = 0))

DaysInMonth(y, m) ==
    CASE m = 2 -> IF IsLeap(y) THEN 29 ELSE 28
      [] m \in {4, 6, 9, 11} -> 30
      [] OTHER -> 31

RECURSIVE DaysBeforeMonth(_, _)
DaysBeforeMonth(y, m) ==
    IF m <= 1 THEN 0 ELSE DaysBeforeMonth(y, m - 1) + DaysInMonth(y, m - 1)

DaysBeforeYear(y) ==
    ((y - 1) * 365) + ((y - 1) \div 4) - ((y - 1) \div 100) + ((y - 1) \div 400)

ToOrdinal(y, m, d) == DaysBeforeYear(y) + DaysBeforeMonth(y, m) + d

ValidDate(y, m, d) ==
    /\ y >= 1
    /\ m \in 1..12
    /\ d >= 1
    /\ d <= DaysInMonth(y, m)

\* datetime.strptime(date_str, '%Y-%m-%d') succeeds (no ValueError)
StrptimeOk(s) == s.k = "date" /\ ValidDate(s.y, s.m, s.d)

\* parse_date: None on None / '' and on ValueError, else the parsed date
parse_date(s) ==
    IF s.k \in {"none", "empty"} THEN [ok |-> FALSE, y |-> 0, m |-> 0, d |-> 0]
    ELSE IF StrptimeOk(s) THEN [ok |-> TRUE, y |-> s.y, m |-> s.m, d |-> s.d]
    ELSE [ok |-> FALSE, y |-> 0, m |-> 0, d |-> 0]

\* extract_custom_field(deal, field_key) on the value v = deal[field_key];
\* keySet is whether field_key itself is a non-empty string.
\* str(value['value']) of a string member is that string, of a null member
\* the text 'None'.
StrOf(s) == IF s.k = "none" THEN TextStr ELSE s

extract_custom_field(v, keySet) ==
    IF ~keySet THEN NoneStr
    ELSE IF ~Truthy(v) THEN NoneStr
    ELSE IF v.t = "str" THEN v.s
    ELSE IF v.t = "dict" THEN StrOf(v.s)
    ELSE NoneStr

\* `not s` for an Optional[str]
Falsy(s) == s.k \in {"none", "empty"}

\* x in <list>
InList(x, list) == \E j \in 1..Len(list) : list[j] = x

DEADLINE_ALERT_DAYS == <<3, 1, 0>>
STAGNATION_ALERT_DAYS == <<3, 7, 14, 30>>

\* (a - b).days for two dates
DateDiffDays(a, b) == ToOrdinal(a.y, a.m, a.d) - ToOrdinal(b.y, b.m, b.d)

\* the trigger condition of check_deadline_alerts
DeadlineTriggerFixedDaysOnly(days_until) == InList(days_until, DEADLINE_ALERT_DAYS)
DeadlineTrigger(days_until) ==
    InList(days_until, DEADLINE_ALERT_DAYS) \/ days_until < 0

\* an alert: deal.copy() with the added keys (a key not added reads as 0 / None)
DeadlineAlert(deal, days_until, p) ==
    [deal |-> deal, alert_type |-> "deadline", days_until |-> days_until,
     stagnation_days |-> 0, handover_date |-> DateStr(p.y, p.m, p.d)]

StagnationAlert(deal, days_in_stage) ==
    [deal |-> deal, alert_type |-> "stagnation", days_until |-> 0,
     stagnation_days |-> days_in_stage, handover_date |-> NoneStr]

\* the for-loop of check_deadline_alerts from deal i on, alerts collected so far
RECURSIVE DeadlineLoop(_, _, _, _, _)
DeadlineLoop(ds, td, keySet, i, alerts) ==
    IF i > Len(ds) THEN alerts
    ELSE LET deal == ds[i]
             handover_date_str == extract_custom_field(deal.hd, keySet)
             handover_date == parse_date(handover_date_str)
             days_until == DateDiffDays(handover_date, td)
         IN  IF Falsy(handover_date_str) THEN DeadlineLoop(ds, td, keySet, i + 1, alerts)
             ELSE IF ~handover_date.ok THEN DeadlineLoop(ds, td, keySet, i + 1, alerts)
             ELSE IF DeadlineTrigger(days_until)
                  THEN DeadlineLoop(ds, td, keySet, i + 1,
                                    Append(alerts, DeadlineAlert(deal, days_until, handover_date)))
                  ELSE DeadlineLoop(ds, td, keySet, i + 1, alerts)

check_deadline_alerts(ds, td, keySet) == DeadlineLoop(ds, td, keySet, 1, <<>>)

\* UTC offset of a timestamp string in hours, after replace('Z', '+00:00')
OffsetHours(off) == IF off = "+09:00" THEN 9 ELSE 0

\* datetime.fromisoformat(s.replace('Z', '+00:00')) succeeds (no ValueError)
FromIsoOk(s) ==
    /\ s.k \in {"date", "datetime"}
    /\ ValidDate(s.y, s.m, s.d)
    /\ s.hh \in 0..23

\* the parsed datetime carries a tzinfo
Aware(s) == s.k = "datetime" /\ s.off # ""

\* hours since the epoch of the ordinal calendar, in UTC
UtcHours(s) == (ToOrdinal(s.y, s.m, s.d) * 24) + s.hh - OffsetHours(s.off)

\* (now - stage_change_time).days: timedelta normalises to a floor
DaysInStage(nw, s) == (UtcHours(nw) - UtcHours(s)) \div 24

StagnationTrigger(days_in_stage) == InList(days_in_stage, STAGNATION_ALERT_DAYS)

\* the for-loop of check_stagnation_alerts from deal i on.  raised: an
\* exception left the function (only ValueError and AttributeError are caught)
RECURSIVE StagnationLoop(_, _, _, _)
StagnationLoop(ds, nw, i, alerts) ==
    IF i > Len(ds) THEN [raised |-> FALSE, alerts |-> alerts]
    ELSE LET deal == ds[i]
             v == deal.sct
         IN  IF ~Truthy(v) THEN StagnationLoop(ds, nw, i + 1, alerts)
             ELSE IF v.t # "str" THEN StagnationLoop(ds, nw, i + 1, alerts)
             ELSE IF ~FromIsoOk(v.s) THEN StagnationLoop(ds, nw, i + 1, alerts)
             ELSE IF ~Aware(v.s) THEN [raised |-> TRUE, alerts |-> <<>>]
             ELSE IF StagnationTrigger(DaysInStage(nw, v.s))
                  THEN StagnationLoop(ds, nw, i + 1,
                                      Append(alerts, StagnationAlert(deal, DaysInStage(nw, v.s))))
                  ELSE StagnationLoop(ds, nw, i + 1, alerts)

check_stagnation_alerts(ds, nw) == StagnationLoop(ds, nw, 1, <<>>)

(***************************************************************************)
(* Configuration: the environment variables read at import time.           *)
(***************************************************************************)
\* HANDOVER_DATE_FIELD_KEY has a non-empty default
HandoverKeySet == TRUE

LogRec(level, msg, n) == [level |-> level, msg |-> msg, n |-> n]
NetCall(api, arg) == [api |-> api, arg |-> arg]

Running == exit_code = -1

\* sys.exit(code), or main() returning (code 0), or an uncaught exception (code 1)
Exit(code) == /\ pc' = "exited"
              /\ exit_code' = code

(***************************************************************************)
(* alert_checker.py                                                        *)
(***************************************************************************)
AlertRequired == {"PIPEDRIVE_API_TOKEN", "PIPELINE_ID", "SLACK_BOT_TOKEN", "SLACK_CHANNEL"}

\* validate_env_vars of alert_checker.py: TRUE when it returns, FALSE when it exits
AlertValidateOkNoChannel(c) ==
    /\ "PIPEDRIVE_API_TOKEN" \in c
    /\ "PIPELINE_ID" \in c
    /\ "SLACK_BOT_TOKEN" \in c

AlertValidateOk(c) ==
    /\ "PIPEDRIVE_API_TOKEN" \in c
    /\ "PIPELINE_ID" \in c
    /\ "SLACK_BOT_TOKEN" \in c
    /\ "SLACK_CHANNEL" \in c

\* main(): validate_env_vars()
AlertValidate ==
    /\ pc = "alert_validate"
    /\ IF AlertValidateOk(cfg)
       THEN /\ pc' = "get_deals"
            /\ UNCHANGED <<exit_code, log>>
       ELSE /\ Exit(1)
            /\ log' = Append(log, LogRec("error", "env_missing", 0))
    /\ UNCHANGED <<run, cfg, net, idx, posts>>
    /\ UNCHANGED alertVars
    /\ UNCHANGED reportVars

\* main(): check_deadline_alerts(deals) and the count it logs
CheckDeadline ==
    /\ pc = "check_deadline"
    /\ deadline_alerts' = check_deadline_alerts(deals, today, HandoverKeySet)
    /\ log' = Append(log, LogRec("info", "deadline_alerts", Len(deadline_alerts')))
    /\ pc' = "check_stagnation"
    /\ UNCHANGED <<run, cfg, exit_code, net, idx, posts, deals, today, now,
                   stagnation_alerts, all_alerts>>
    /\ UNCHANGED reportVars

\* all_alerts = deadline_alerts + stagnation_alerts
AllAlertsStagnationFirst(d, st) == st \o d
AllAlerts(d, st) == d \o st

\* main(): check_stagnation_alerts(deals), all_alerts and the empty check.
\* An exception leaving check_stagnation_alerts ends the process with a traceback.
CheckStagnation ==
    /\ pc = "check_stagnation"
    /\ LET r == check_stagnation_alerts(deals, now)
       IN  IF r.raised
           THEN /\ Exit(1)
                /\ UNCHANGED <<stagnation_alerts, all_alerts, log, idx>>
           ELSE /\ stagnation_alerts' = r.alerts
                /\ all_alerts' = AllAlerts(deadline_alerts, r.alerts)
                /\ IF all_alerts' = <<>>
                   THEN /\ Exit(0)
                        /\ log' = Append(log, LogRec("info", "stagnation_alerts", Len(r.alerts)))
                        /\ UNCHANGED idx
                   ELSE /\ pc' = "send"
                        /\ idx' = 1
                        /\ log' = log \o <<LogRec("info", "stagnation_alerts", Len(r.alerts)),
                                           LogRec("info", "total_alerts", Len(all_alerts'))>>
                        /\ UNCHANGED exit_code
    /\ UNCHANGED <<run, cfg, net, posts, deals, today, now, deadline_alerts>>
    /\ UNCHANGED reportVars

\* what one HTTP request to a collaborator can end in
\*   ok               2xx and the body reports success
\*   not_ok           2xx and the body reports failure (ok / success is false)
\*   http_error       4xx / 5xx: raise_for_status raises HTTPError
\*   transport_error  ConnectionError / Timeout raised by requests
Outcomes == {"ok", "not_ok", "http_error", "transport_error"}

\* the outcome raises a requests.exceptions.RequestException
Raises(o) == o \in {"http_error", "transport_error"}

\* main(): get_all_open_deals(PIPELINE_ID) and the empty check.  Every failure
\* of the fetch is turned into [] by get_all_open_deals.
GetAllOpenDeals(o, ds) ==
    /\ pc = "get_deals"
    /\ net' = Append(net, NetCall("deals", 0))
    /\ deals' = IF o = "ok" THEN ds ELSE <<>>
    /\ IF deals' = <<>>
       THEN /\ Exit(0)
            /\ log' = Append(log, LogRec(IF o = "ok" THEN "info" ELSE "error", "no_deals", 0))
       ELSE /\ pc' = "check_deadline"
            /\ log' = Append(log, LogRec("info", "deals_fetched", Len(ds)))
            /\ UNCHANGED exit_code
    /\ UNCHANGED <<run, cfg, idx, posts, today, now, deadline_alerts, stagnation_alerts, all_alerts>>
    /\ UNCHANGED reportVars

\* post_slack_message(text, thread_ts): the payload's thread_ts (None when the
\* key is left out), the log line written and the value returned
PostPayloadThread(ts) == IF Falsy(ts) THEN NoneStr ELSE ts

PostLog(o) ==
    CASE o = "ok" -> LogRec("info", "slack_post_ok", 0)
      [] o = "not_ok" -> LogRec("error", "slack_api_error", 0)
      [] OTHER -> LogRec("error", "slack_post_failed", 0)

post_slack_message(o) == o = "ok"

\* an exception leaves post_slack_message: never, its except clause takes
\* every RequestException
PostEscapesNoCatch(o) == Raises(o)
PostEscapes(o) == FALSE

\* send_alert: the thread anchor read off the deal
AlertThreadTs(deal, c) ==
    IF "SLACK_THREAD_TS_FIELD_KEY" \in c
    THEN extract_custom_field(deal.tts, TRUE)
    ELSE NoneStr

\* format_*_alert_message: get_stage_name(stage_id) if stage_id else '不明'
StageLookups(deal) == IF deal.stage_id # 0 THEN <<NetCall("stage", deal.stage_id)>> ELSE <<>>

\* get_stage_name(stage_id) on the answer lk of /stages/{id}: the stage's name,
\* or the text made of the id when the request fails or carries no data
StageDisplay(k, id) == [k |-> k, id |-> id]
UnknownStage == StageDisplay("unknown", 0)

get_stage_name(stage_id, lk) ==
    IF lk = "ok" THEN StageDisplay("name", stage_id) ELSE StageDisplay("fallback", stage_id)

\* get_stage_name(stage_id) if stage_id else '不明'
StageNameFor(deal, lk) ==
    IF deal.stage_id # 0 THEN get_stage_name(deal.stage_id, lk) ELSE UnknownStage

\* deal.get('title', '不明')
NoTitle == "<no title>"
DefaultTitle == "fumei"
AlertTitle(deal) == IF deal.title = NoTitle THEN DefaultTitle ELSE deal.title

\* abs(n)
Abs(n) == IF n < 0 THEN 0 - n ELSE n

\* a rendered alert: the marker and the status of the headline, the number the
\* headline quotes (0 when it quotes none), and the fields of the body
AlertMessage(kind, urgency, status, count, title, date, stage_name) ==
    [kind |-> kind, urgency |-> urgency, status |-> status, count |-> count,
     title |-> title, date |-> date, stage_name |-> stage_name]

format_deadline_alert_message_no_overdue(alert, stage_name) ==
    LET days_until == alert.days_until
        title == AlertTitle(alert.deal)
    IN  IF days_until = 0
        THEN AlertMessage("deadline", "warning", "due_today", 0,
                          title, alert.handover_date, stage_name)
        ELSE IF days_until = 1
        THEN AlertMessage("deadline", "warning", "due_tomorrow", 0,
                          title, alert.handover_date, stage_name)
        ELSE AlertMessage("deadline", "calendar", "due_in_days", days_until,
                          title, alert.handover_date, stage_name)

format_deadline_alert_message(alert, stage_name) ==
    LET days_until == alert.days_until
        title == AlertTitle(alert.deal)
    IN  IF days_until < 0
        THEN AlertMessage("deadline", "siren", "overdue", Abs(days_until),
                          title, alert.handover_date, stage_name)
        ELSE IF days_until = 0
        THEN AlertMessage("deadline", "warning", "due_today", 0,
                          title, alert.handover_date, stage_name)
        ELSE IF days_until = 1
        THEN AlertMessage("deadline", "warning", "due_tomorrow", 0,
                          title, alert.handover_date, stage_name)
        ELSE AlertMessage("deadline", "calendar", "due_in_days", days_until,
                          title, alert.handover_date, stage_name)

format_stagnation_alert_message(alert, stage_name) ==
    LET stagnation_days == alert.stagnation_days
        urgency == IF stagnation_days >= 30 THEN "siren"
                   ELSE IF stagnation_days >= 14 THEN "warning"
                   ELSE "pin"
    IN  AlertMessage("stagnation", urgency, "stagnation", stagnation_days,
                     AlertTitle(alert.deal), NoneStr, stage_name)

\* send_alert: the message for the alert's type
AlertText(alert, lk) ==
    IF alert.alert_type = "deadline"
    THEN format_deadline_alert_message(alert, StageNameFor(alert.deal, lk))
    ELSE format_stagnation_alert_message(alert, StageNameFor(alert.deal, lk))

\* main(): one turn of `for alert in all_alerts: send_alert(alert)`, and the end
\* of main() after the last turn.  lk is how the stage lookup ends, o how the
\* chat request ends.
SendAlert(o, lk) ==
    /\ pc = "send"
    /\ idx <= Len(all_alerts)
    /\ LET alert == all_alerts[idx]
           ts == AlertThreadTs(alert.deal, cfg)
       IN  /\ net' = net \o StageLookups(alert.deal) \o <<NetCall("chat", idx)>>
           /\ posts' = Append(posts, [alert |-> alert,
                                      text |-> AlertText(alert, lk),
                                      thread_ts |-> PostPayloadThread(ts),
                                      outcome |-> o])
           /\ IF PostEscapes(o)
              THEN /\ Exit(1)
                   /\ UNCHANGED log
              ELSE IF idx = Len(all_alerts)
              THEN /\ Exit(0)
                   /\ log' = log \o <<PostLog(o), LogRec("info", "completed", 0)>>
              ELSE /\ log' = Append(log, PostLog(o))
                   /\ UNCHANGED <<pc, exit_code>>
           /\ idx' = idx + 1
    /\ UNCHANGED <<run, cfg>>
    /\ UNCHANGED alertVars
    /\ UNCHANGED reportVars

(***************************************************************************)
(* Inputs of the classification functions.                                 *)
(***************************************************************************)
Date(y, m, d) == [y |-> y, m |-> m, d |-> d]
At(y, m, d, hh) == DateTimeStr(y, m, d, hh, "+00:00")

\* values of the handover-date custom field
HdValues == {Absent, Str(EmptyStr), Str(TextStr), DictNoValue, WrappedNull, Num,
             Str(DateStr(2024, 2, 8)), Wrapped(DateStr(2024, 2, 6)),
             Str(DateStr(2024, 3, 4)), Str(DateStr(2024, 2, 30)),
             Str(DateTimeStr(2024, 2, 8, 10, ""))}

\* values of stage_change_time
SctValues == {Absent, Null, Num, Str(TextStr),
              Str(DateTimeStr(2024, 2, 1, 12, "")), Str(DateStr(2024, 2, 1)),
              Str(DateTimeStr(2024, 2, 1, 12, "Z")),
              Str(DateTimeStr(2024, 2, 1, 21, "+09:00"))}

FieldPairs ==
    {<<h, Absent>> : h \in HdValues} \cup {<<Absent, s>> : s \in SctValues}
    \cup {<<Str(DateStr(2024, 2, 8)), Str(DateTimeStr(2024, 2, 1, 12, "Z"))>>,
          <<Str(TextStr), Str(DateTimeStr(2024, 2, 1, 12, "Z"))>>,
          <<Str(DateStr(2024, 2, 8)), Str(TextStr)>>,
          <<Str(DateStr(2024, 2, 8)), Str(DateTimeStr(2024, 2, 1, 12, ""))>>}

\* <<local date, UTC time>> the system clock shows during the run
ClassifyClocks ==
    {<<Date(2024, 1, 31), At(2024, 1, 31, 12)>>,
     <<Date(2024, 2, 4), At(2024, 2, 4, 11)>>,
     <<Date(2024, 2, 4), At(2024, 2, 4, 12)>>,
     <<Date(2024, 2, 5), At(2024, 2, 5, 12)>>,
     <<Date(2024, 2, 8), At(2024, 2, 8, 11)>>,
     <<Date(2024, 2, 8), At(2024, 2, 8, 12)>>,
     <<Date(2024, 2, 15), At(2024, 2, 15, 11)>>,
     <<Date(2024, 2, 15), At(2024, 2, 15, 12)>>,
     <<Date(2024, 2, 16), At(2024, 2, 16, 12)>>,
     <<Date(2024, 3, 2), At(2024, 3, 2, 11)>>,
     <<Date(2024, 3, 2), At(2024, 3, 2, 12)>>,
     <<Date(2024, 3, 3), At(2024, 3, 3, 12)>>}

MkDeal(i, title, stage_id, hd, sct, tts) ==
    [id |-> i, title |-> title, stage_id |-> stage_id, hd |-> hd, sct |-> sct, tts |-> tts]

ClassifyDealLists ==
    UNION {{[i \in 1..n |-> MkDeal(i, "Acme", 1, f[i][1], f[i][2], Absent)] :
               f \in [1..n -> FieldPairs]} : n \in 1..MaxDeals}

\* a narrative text: src tells the texts apart (the backend's answer, or one
\* of the fixed messages), text is the backend's answer as character codes,
\* total the number the fallback of main.py quotes
Summary(src, text, total) == [src |-> src, text |-> text, total |-> total]
NoSummary == Summary("none", <<>>, 0)

ReportIdle ==
    /\ mode = "none"
    /\ stages = <<>>
    /\ fetched = <<>>
    /\ stage_companies = <<>>
    /\ summary = NoSummary
    /\ thread_ts = "none"

\* the alert run at the call of check_deadline_alerts, for any fetched deals
InitClassify ==
    /\ run = "alert"
    /\ pc = "check_deadline"
    /\ cfg = AlertRequired
    /\ exit_code = -1
    /\ net = <<NetCall("deals", 0)>>
    /\ log = <<>>
    /\ deals \in ClassifyDealLists
    /\ \E c \in ClassifyClocks : today = c[1] /\ now = c[2]
    /\ deadline_alerts = <<>>
    /\ stagnation_alerts = <<>>
    /\ all_alerts = <<>>
    /\ idx = 0
    /\ posts = <<>>
    /\ ReportIdle

NextClassify == CheckDeadline \/ CheckStagnation

SpecClassify == InitClassify /\ [][NextClassify]_vars

(***************************************************************************)
(* The alert run from its start.                                           *)
(***************************************************************************)
DueToday == Str(DateStr(2024, 2, 4))
Overdue == Wrapped(DateStr(2024, 2, 3))
ThreeDaysIn == Str(DateTimeStr(2024, 2, 1, 12, "Z"))
NoOffset == Str(DateTimeStr(2024, 2, 1, 12, ""))
ThreadA == Str(TextStr)
ThreadB == Wrapped(TextStr)

\* <<stage_id, handover date, stage_change_time, thread ts>> of the deals fetched
AlertDealFields ==
    {<<1, DueToday, Absent, Absent>>,
     <<2, Absent, ThreeDaysIn, ThreadA>>,
     <<1, Overdue, ThreeDaysIn, ThreadB>>,
     <<0, Absent, Absent, Absent>>,
     <<2, DueToday, NoOffset, Absent>>,
     <<0, DueToday, Absent, Wrapped(EmptyStr)>>,
     <<3, DueToday, Absent, WrappedNull>>}

AlertDealLists ==
    UNION {{[i \in 1..n |-> MkDeal(i, "Acme", f[i][1], f[i][2], f[i][3], f[i][4])] :
               f \in [1..n -> AlertDealFields]} : n \in 0..MaxDeals}

AlertClock == <<Date(2024, 2, 4), At(2024, 2, 4, 12)>>

\* how the request of get_stage_name ends
LookupOutcomes == {"ok", "transport_error"}

\* how chat.postMessage ends in a whole alert run (an HTTP error status is
\* handled by the same except clause as a transport error)
AlertPostOutcomes == {"ok", "not_ok", "transport_error"}

InitAlert ==
    /\ run = "alert"
    /\ pc = "alert_validate"
    /\ cfg \in SUBSET (AlertRequired \cup {"SLACK_THREAD_TS_FIELD_KEY"})
    /\ exit_code = -1
    /\ net = <<>>
    /\ log = <<>>
    /\ deals = <<>>
    /\ today = AlertClock[1]
    /\ now = AlertClock[2]
    /\ deadline_alerts = <<>>
    /\ stagnation_alerts = <<>>
    /\ all_alerts = <<>>
    /\ idx = 0
    /\ posts = <<>>
    /\ ReportIdle

NextAlert ==
    \/ AlertValidate
    \/ \E o \in Outcomes, ds \in AlertDealLists : GetAllOpenDeals(o, ds)
    \/ CheckDeadline
    \/ CheckStagnation
    \/ \E o \in AlertPostOutcomes : SendAlert(o, "ok")

SpecAlert == InitAlert /\ [][NextAlert]_vars

(***************************************************************************)
(* The delivery loop of the alert run on the events of one deal, for any   *)
(* clock, with stage lookups that succeed or fail.                         *)
(***************************************************************************)
\* <<title, stage_id, handover date, stage_change_time>>
RenderDealFields ==
    {"Acme", NoTitle} \X {0, 2}
        \X {Str(DateStr(2024, 2, 8)), Wrapped(DateStr(2024, 2, 6)), Str(DateStr(2024, 3, 4))}
        \X {Absent, Str(DateTimeStr(2024, 2, 1, 12, "Z"))}

RenderDealLists == {<<MkDeal(1, f[1], f[2], f[3], f[4], Absent)>> : f \in RenderDealFields}

\* the alert run at the first turn of its delivery loop
InitRender ==
    /\ run = "alert"
    /\ pc = "send"
    /\ cfg = AlertRequired
    /\ exit_code = -1
    /\ net = <<NetCall("deals", 0)>>
    /\ log = <<>>
    /\ deals \in RenderDealLists
    /\ \E c \in ClassifyClocks : today = c[1] /\ now = c[2]
    /\ deadline_alerts = check_deadline_alerts(deals, today, HandoverKeySet)
    /\ stagnation_alerts = check_stagnation_alerts(deals, now).alerts
    /\ all_alerts = AllAlerts(deadline_alerts, stagnation_alerts)
    /\ all_alerts # <<>>
    /\ idx = 1
    /\ posts = <<>>
    /\ ReportIdle

NextRender == \E o \in Outcomes, lk \in LookupOutcomes : SendAlert(o, lk)

SpecRender == InitRender /\ [][NextRender]_vars

(***************************************************************************)
(* main.py                                                                 *)
(***************************************************************************)
ReportEnv == {"PIPEDRIVE_API_TOKEN", "PIPELINE_ID", "SLACK_BOT_TOKEN", "SLACK_CHANNEL",
              "GEMINI_API_KEY", "SLACK_WEBHOOK_URL"}

\* validate_env_vars of main.py: the mode returned, or "exit" for sys.exit(1)
validate_env_vars(c) ==
    IF "PIPEDRIVE_API_TOKEN" \notin c THEN "exit"
    ELSE IF "PIPELINE_ID" \notin c THEN "exit"
    ELSE IF "SLACK_BOT_TOKEN" \in c /\ "GEMINI_API_KEY" \in c
         THEN IF "SLACK_CHANNEL" \notin c THEN "exit" ELSE "enhanced"
    ELSE IF "SLACK_WEBHOOK_URL" \in c THEN "legacy"
    ELSE "exit"

\* main(): mode = validate_env_vars()
ReportValidate ==
    /\ pc = "report_validate"
    /\ LET m == validate_env_vars(cfg)
       IN  IF m = "exit"
           THEN /\ Exit(1)
                /\ log' = Append(log, LogRec("error", "env_missing", 0))
                /\ UNCHANGED mode
           ELSE /\ mode' = m
                /\ pc' = "get_stages"
                /\ log' = Append(log, LogRec("info", "mode", 0))
                /\ UNCHANGED exit_code
    /\ UNCHANGED <<run, cfg, net, idx, posts, stages, fetched, stage_companies,
                   summary, thread_ts>>
    /\ UNCHANGED alertVars

\* stage.get('name', '不明')
NoName == "<no name>"
DefaultStageName == "fumei"
StageNameOf(stage) == IF stage.name = NoName THEN DefaultStageName ELSE stage.name

\* sorted(stages, key=order_nr): a stable sort
InsertByOrderNr(s, x) ==
    LET k == Cardinality({j \in 1..Len(s) : s[j].order_nr <= x.order_nr})
    IN  SubSeq(s, 1, k) \o <<x>> \o SubSeq(s, k + 1, Len(s))

RECURSIVE SortByOrderNr(_)
SortByOrderNr(s) ==
    IF s = <<>> THEN <<>>
    ELSE InsertByOrderNr(SortByOrderNr(SubSeq(s, 1, Len(s) - 1)), s[Len(s)])

\* get_stages_by_pipeline_id on the response r = [o, hasData, stages]
get_stages_by_pipeline_id(r) ==
    IF r.o # "ok" THEN <<>>
    ELSE IF ~r.hasData \/ r.stages = <<>> THEN <<>>
    ELSE SortByOrderNr(r.stages)

\* get_pipeline_stages on the response r1 of /pipelines/{id} and, when it is
\* asked, the response r2 of /stages.  exit: the function called sys.exit(1)
get_pipeline_stages(r1, r2) ==
    IF r1.o # "ok" \/ ~r1.hasData
    THEN [exit |-> TRUE, stages |-> <<>>, calls |-> <<NetCall("pipeline", 0)>>]
    ELSE IF r1.stages = <<>>
    THEN [exit |-> FALSE, stages |-> get_stages_by_pipeline_id(r2),
          calls |-> <<NetCall("pipeline", 0), NetCall("stages", 0)>>]
    ELSE [exit |-> FALSE, stages |-> SortByOrderNr(r1.stages),
          calls |-> <<NetCall("pipeline", 0)>>]

\* main(): stages = get_pipeline_stages(PIPELINE_ID) and the empty check
GetPipelineStages(r1, r2) ==
    /\ pc = "get_stages"
    /\ LET r == get_pipeline_stages(r1, r2)
       IN  /\ net' = net \o r.calls
           /\ IF r.exit \/ r.stages = <<>>
              THEN /\ Exit(1)
                   /\ log' = Append(log, LogRec("error", "no_stages", 0))
                   /\ UNCHANGED <<stages, idx>>
              ELSE /\ stages' = r.stages
                   /\ idx' = 1
                   /\ pc' = "group"
                   /\ log' = Append(log, LogRec("info", "stages", Len(r.stages)))
                   /\ UNCHANGED exit_code
    /\ UNCHANGED <<run, cfg, posts, mode, fetched, stage_companies, summary, thread_ts>>
    /\ UNCHANGED alertVars

\* titles are strings of character codes
Whitespace == {32, 9}

RECURSIVE LStrip(_)
LStrip(s) == IF s # <<>> /\ Head(s) \in Whitespace THEN LStrip(Tail(s)) ELSE s

RECURSIVE RStrip(_)
RStrip(s) ==
    IF s # <<>> /\ s[Len(s)] \in Whitespace THEN RStrip(SubSeq(s, 1, Len(s) - 1)) ELSE s

\* str.strip()
Strip(s) == RStrip(LStrip(s))

\* a < b for two strings
RECURSIVE LexLess(_, _)
LexLess(a, b) ==
    IF b = <<>> THEN FALSE
    ELSE IF a = <<>> THEN TRUE
    ELSE IF Head(a) # Head(b) THEN Head(a) < Head(b)
    ELSE LexLess(Tail(a), Tail(b))

\* sorted(companies) of a set of strings
RECURSIVE SortedList(_)
SortedList(S) ==
    IF S = {} THEN <<>>
    ELSE LET least == CHOOSE x \in S : \A y \in S \ {x} : LexLess(x, y)
         IN  <<least>> \o SortedList(S \ {least})

\* deal.get('title', '')
TitleOf(deal) == IF deal.has THEN deal.s ELSE <<>>

\* the title a deal contributes: deal.get('title', '').strip()
CompanyTitle(deal) == Strip(TitleOf(deal))

\* the set `companies` after the inner loop over the deals of one stage
CompaniesOf(ds) == {CompanyTitle(ds[j]) : j \in 1..Len(ds)} \ {<<>>}

\* stage_companies[k] = v on a dict kept as its items in insertion order
DictSet(d, k, v) ==
    IF \E j \in 1..Len(d) : d[j].name = k
    THEN [j \in 1..Len(d) |-> IF d[j].name = k THEN [name |-> k, companies |-> v] ELSE d[j]]
    ELSE Append(d, [name |-> k, companies |-> v])

\* get_deals_by_stage: every failure of the fetch gives []
get_deals_by_stage(o, ds) == IF o = "ok" THEN ds ELSE <<>>

\* the line get_deals_by_stage logs: an error for a failed fetch (transport
\* error, HTTP error status, success: false), else the number of deals
StageFetchLog(o, stage) ==
    LogRec(IF o = "ok" THEN "info" ELSE "error", "stage_deals", stage.id)

\* group_companies_by_stage: one turn of `for stage in stages`, and what main()
\* does once the function has returned
GroupStage(o, ds) ==
    /\ pc = "group"
    /\ idx <= Len(stages)
    /\ LET stage == stages[idx]
           got == get_deals_by_stage(o, ds)
       IN  /\ net' = Append(net, NetCall("stage_deals", stage.id))
           /\ fetched' = Append(fetched, got)
           /\ stage_companies' = DictSet(stage_companies, StageNameOf(stage),
                                         SortedList(CompaniesOf(got)))
           /\ log' = Append(log, StageFetchLog(o, stage))
    /\ idx' = idx + 1
    /\ pc' = IF idx < Len(stages) THEN "group"
             ELSE IF mode = "enhanced" THEN "summary" ELSE "send_legacy"
    /\ UNCHANGED <<run, cfg, exit_code, posts, mode, stages, summary, thread_ts>>
    /\ UNCHANGED alertVars

\* sum(len(c) for c in stage_companies.values())
RECURSIVE TotalCompanies(_)
TotalCompanies(sc) ==
    IF sc = <<>> THEN 0 ELSE Len(Head(sc).companies) + TotalCompanies(Tail(sc))

\* generate_pipeline_summary: response.text.strip(), or the exception of
\* generate_content passed on to the caller
generate_pipeline_summary(o, t) ==
    IF o = "ok" THEN [raised |-> FALSE, summary |-> Summary("llm", Strip(t), 0)]
    ELSE [raised |-> TRUE, summary |-> NoSummary]

\* an exception of generate_pipeline_summary leaves main(): never, the except
\* clause around the call takes every Exception
SummaryEscapesNoCatch(r) == r.raised
SummaryEscapes(r) == FALSE

\* main(): generate_pipeline_summary inside try / except Exception; t is the
\* text the backend answers with
GenerateSummary(o, t) ==
    /\ pc = "summary"
    /\ net' = Append(net, NetCall("gemini", 0))
    /\ LET r == generate_pipeline_summary(o, t)
       IN  IF SummaryEscapes(r)
           THEN /\ Exit(1)
                /\ UNCHANGED <<summary, log>>
           ELSE /\ summary' = IF r.raised
                               THEN Summary("fallback", <<>>, TotalCompanies(stage_companies))
                               ELSE r.summary
                /\ log' = IF r.raised
                          THEN Append(log, LogRec("error", "summary_failed", 0))
                          ELSE log
                /\ pc' = "send_parent"
                /\ UNCHANGED exit_code
    /\ UNCHANGED <<run, cfg, idx, posts, mode, stages, fetched,
                   stage_companies, thread_ts>>
    /\ UNCHANGED alertVars

\* a chat delivery of the report run; text is the narrative a parent carries
ReportPost(kind, stage, companies, ts, o) ==
    [kind |-> kind, stage |-> stage, companies |-> companies, thread_ts |-> ts, outcome |-> o,
     text |-> NoSummary]

\* send_to_slack_with_thread: the parent message; ts is the ts Slack answers
\* with when the post succeeds.  Any failure makes the function return False.
SendParent(o, ts) ==
    /\ pc = "send_parent"
    /\ net' = Append(net, NetCall("chat", 0))
    /\ posts' = Append(posts, [ReportPost("parent", "", <<>>, "none", o) EXCEPT !.text = summary])
    /\ IF o = "ok"
       THEN /\ thread_ts' = ts
            /\ idx' = 1
            /\ pc' = "send_followup"
            /\ log' = Append(log, LogRec("info", "parent_sent", 0))
            /\ UNCHANGED exit_code
       ELSE /\ Exit(1)
            /\ log' = Append(log, LogRec("error", "slack_failed", 0))
            /\ UNCHANGED <<thread_ts, idx>>
    /\ UNCHANGED <<run, cfg, mode, stages, fetched, stage_companies, summary>>
    /\ UNCHANGED alertVars

\* the thread_ts member of a follow-up's payload
FollowupThreadLeftOut(ts) == "none"
FollowupThread(ts) == ts

\* the follow-up loop goes on after this outcome: a non-ok answer is only
\* logged, an exception leaves the loop for the function's except clause
FollowupContinues(o) == ~Raises(o)

\* send_to_slack_with_thread: one turn of the loop over stage_companies.items(),
\* the function's return and main()'s sys.exit
SendFollowup(o) ==
    /\ pc = "send_followup"
    /\ idx <= Len(stage_companies)
    /\ LET item == stage_companies[idx]
       IN  posts' = Append(posts, ReportPost("followup", item.name, item.companies,
                                             FollowupThread(thread_ts), o))
    /\ net' = Append(net, NetCall("chat", idx))
    /\ IF ~FollowupContinues(o)
       THEN /\ Exit(1)
            /\ log' = Append(log, LogRec("error", "slack_failed", idx))
            /\ UNCHANGED idx
       ELSE /\ idx' = idx + 1
            /\ log' = Append(log, LogRec(IF o = "ok" THEN "info" ELSE "warning",
                                         "followup", idx))
            /\ IF idx = Len(stage_companies)
               THEN Exit(0)
               ELSE UNCHANGED <<pc, exit_code>>
    /\ UNCHANGED <<run, cfg, mode, stages, fetched, stage_companies, summary, thread_ts>>
    /\ UNCHANGED alertVars

\* send_to_slack_legacy on the webhook's answer: "ok" is status 200 with body
\* 'ok', "not_ok" is status 200 with any other body (returns True all the same)
send_to_slack_legacy_unchecked(o) == TRUE
send_to_slack_legacy(o) == ~Raises(o)

\* main(): the legacy branch
SendLegacy(o) ==
    /\ pc = "send_legacy"
    /\ net' = Append(net, NetCall("webhook", 0))
    /\ posts' = Append(posts, ReportPost("webhook", "", <<>>, "none", o))
    /\ IF send_to_slack_legacy(o)
       THEN /\ Exit(0)
            /\ log' = Append(log, LogRec(IF o = "ok" THEN "info" ELSE "warning",
                                         "webhook_sent", 0))
       ELSE /\ Exit(1)
            /\ log' = Append(log, LogRec("error", "slack_failed", 0))
    /\ UNCHANGED <<run, cfg, idx, mode, stages, fetched, stage_companies, summary, thread_ts>>
    /\ UNCHANGED alertVars

(***************************************************************************)
(* Inputs of the report run.                                               *)
(***************************************************************************)
StageNames == {"Lead", NoName}
OrderNrs == {1, 2}

MkStage(i, name, order_nr) == [id |-> i, name |-> name, order_nr |-> order_nr]

\* the stages member of a pipeline response
RawStageLists ==
    UNION {{[i \in 1..n |-> MkStage(i, f[i][1], f[i][2])] :
               f \in [1..n -> StageNames \X OrderNrs]} : n \in 0..MaxStages}

StageResponses ==
    {[o |-> o, hasData |-> TRUE, stages |-> s] : o \in Outcomes, s \in RawStageLists}
    \cup {[o |-> "ok", hasData |-> FALSE, stages |-> <<>>]}

\* the answer of /stages when /pipelines/{id} lists no stage
FallbackResponses ==
    {[o |-> "ok", hasData |-> TRUE, stages |-> <<MkStage(1, "Won", 2), MkStage(2, "Lead", 1)>>],
     [o |-> "ok", hasData |-> TRUE, stages |-> <<>>],
     [o |-> "transport_error", hasData |-> FALSE, stages |-> <<>>]}

Titled(s) == [has |-> TRUE, s |-> s]
Untitled == [has |-> FALSE, s |-> <<>>]

\* 'A', ' A ', 'B', ' ' and a deal without title
TitleInputs == {Titled(<<65>>), Titled(<<32, 65, 32>>), Titled(<<66>>), Titled(<<32>>),
                Untitled}

\* deals of one stage in a report run
ReportDealLists == {<<>>, <<Titled(<<66>>), Titled(<<32, 65>>), Titled(<<66>>)>>}

TsValues == {"1700000000.000100", "1700000000.000200"}

\* what the backend answers in a report run: ' OK '
ReportBackendTexts == {<<32, 79, 75, 32>>}

InitReport ==
    /\ run = "report"
    /\ pc = "report_validate"
    /\ cfg \in SUBSET ReportEnv
    /\ exit_code = -1
    /\ net = <<>>
    /\ log = <<>>
    /\ deals = <<>>
    /\ today = AlertClock[1]
    /\ now = AlertClock[2]
    /\ deadline_alerts = <<>>
    /\ stagnation_alerts = <<>>
    /\ all_alerts = <<>>
    /\ idx = 0
    /\ posts = <<>>
    /\ ReportIdle

NextReport ==
    \/ ReportValidate
    \/ \E r1 \in StageResponses, r2 \in FallbackResponses : GetPipelineStages(r1, r2)
    \/ \E o \in Outcomes, ds \in ReportDealLists : GroupStage(o, ds)
    \/ \E o \in {"ok", "transport_error"}, t \in ReportBackendTexts : GenerateSummary(o, t)
    \/ \E o \in Outcomes, ts \in TsValues : SendParent(o, ts)
    \/ \E o \in Outcomes : SendFollowup(o)
    \/ \E o \in Outcomes : SendLegacy(o)

SpecReport == InitReport /\ [][NextReport]_vars

\* stage lists as get_pipeline_stages returns them (sorted by order_nr)
AggregateStageLists ==
    {<<MkStage(1, "Lead", 1)>>,
     <<MkStage(1, "Lead", 1), MkStage(2, "Won", 2)>>,
     <<MkStage(1, "Lead", 1), MkStage(2, "Lead", 2)>>,
     <<MkStage(1, NoName, 1), MkStage(2, "Won", 1)>>,
     <<MkStage(1, NoName, 1), MkStage(2, NoName, 2)>>}

AggregateDealLists == UNION {[1..n -> TitleInputs] : n \in 0..MaxStageDeals}

\* an Enhanced report run at the call of group_companies_by_stage
InitAggregate ==
    /\ run = "report"
    /\ pc = "group"
    /\ cfg = ReportEnv \ {"SLACK_WEBHOOK_URL"}
    /\ exit_code = -1
    /\ net = <<NetCall("pipeline", 0)>>
    /\ log = <<>>
    /\ deals = <<>>
    /\ today = AlertClock[1]
    /\ now = AlertClock[2]
    /\ deadline_alerts = <<>>
    /\ stagnation_alerts = <<>>
    /\ all_alerts = <<>>
    /\ idx = 1
    /\ posts = <<>>
    /\ mode = "enhanced"
    /\ stages \in AggregateStageLists
    /\ fetched = <<>>
    /\ stage_companies = <<>>
    /\ summary = NoSummary
    /\ thread_ts = "none"

NextAggregate == \E o \in {"ok", "not_ok"}, ds \in AggregateDealLists : GroupStage(o, ds)

SpecAggregate == InitAggregate /\ [][NextAggregate]_vars

\* both scripts, as the scheduler starts one or the other
InitRuns == InitAlert \/ InitReport
NextRuns == NextAlert \/ NextReport
SpecRuns == InitRuns /\ [][NextRuns]_vars

(***************************************************************************)
(* llm_reporter.py: generate_report, called on its own (main.py does not   *)
(* use it).  The stage map maps a stage name to a set of company names.    *)
(***************************************************************************)
\* one line of the prompt: "- {stage}: {len(companies)}件" and, for a stage
\* with companies, the line listing sorted(companies)
PromptLine(item) ==
    [stage |-> item.name, count |-> Cardinality(item.companies),
     listed |-> IF item.companies # {} THEN SortedList(item.companies) ELSE <<>>]

PromptOf(sc) == [j \in 1..Len(sc) |-> PromptLine(sc[j])]

\* has_deals after the loop over stage_companies.items()
HasDeals(sc) == \E j \in 1..Len(sc) : sc[j].companies # {}

\* model.generate_content(prompt): the prompt sent, and the text answered
\* (none when the call raises)
GenerateContent(prompt, o, t) ==
    NetCall("gemini", [prompt |-> prompt, answer |-> IF o = "ok" THEN t ELSE <<>>])

\* generate_report(stage_companies): the text returned and the calls of
\* model.generate_content made.  hasKey: GOOGLE_API_KEY is set and not empty;
\* o: how generate_content ends; t: the text of its response
generate_report_always_asks(hasKey, sc, o, t) ==
    IF ~hasKey THEN [text |-> Summary("disabled", <<>>, 0), calls |-> <<>>]
    ELSE IF o # "ok"
    THEN [text |-> Summary("error", <<>>, 0), calls |-> <<GenerateContent(PromptOf(sc), o, t)>>]
    ELSE [text |-> Summary("llm", t, 0), calls |-> <<GenerateContent(PromptOf(sc), o, t)>>]

generate_report(hasKey, sc, o, t) ==
    IF ~hasKey THEN [text |-> Summary("disabled", <<>>, 0), calls |-> <<>>]
    ELSE IF ~HasDeals(sc) THEN [text |-> Summary("no_deals", <<>>, 0), calls |-> <<>>]
    ELSE IF o # "ok"
    THEN [text |-> Summary("error", <<>>, 0), calls |-> <<GenerateContent(PromptOf(sc), o, t)>>]
    ELSE [text |-> Summary("llm", t, 0), calls |-> <<GenerateContent(PromptOf(sc), o, t)>>]

\* one call of generate_report on the stage map held in stage_companies
GenerateReport(o, t) ==
    /\ pc = "generate_report"
    /\ LET r == generate_report("GOOGLE_API_KEY" \in cfg, stage_companies, o, t)
       IN  /\ summary' = r.text
           /\ net' = net \o r.calls
           /\ log' = Append(log, LogRec(CASE r.text.src = "disabled" -> "warning"
                                          [] r.text.src = "error" -> "error"
                                          [] OTHER -> "info",
                                        "generate_report", 0))
    /\ pc' = "returned"
    /\ UNCHANGED <<run, cfg, exit_code, idx, posts, mode, stages, fetched,
                   stage_companies, thread_ts>>
    /\ UNCHANGED alertVars

\* stage maps handed to generate_report: a dict, so the names differ
NarratorStageNames == <<"Stage A", "Stage B", "Stage C">>
NarratorCompanies == {<<65>>, <<66>>}

NarratorStageMaps ==
    UNION {{[j \in 1..n |-> [name |-> NarratorStageNames[j], companies |-> f[j]]] :
               f \in [1..n -> SUBSET NarratorCompanies]} : n \in 0..MaxStages}

\* texts the backend answers with: 'OK' and ' OK ' followed by a newline
BackendTexts == {<<79, 75>>, <<32, 79, 75, 32, 10>>}

InitNarrator ==
    /\ run = "narrator"
    /\ pc = "generate_report"
    /\ cfg \in SUBSET {"GOOGLE_API_KEY"}
    /\ exit_code = -1
    /\ net = <<>>
    /\ log = <<>>
    /\ deals = <<>>
    /\ today = AlertClock[1]
    /\ now = AlertClock[2]
    /\ deadline_alerts = <<>>
    /\ stagnation_alerts = <<>>
    /\ all_alerts = <<>>
    /\ idx = 0
    /\ posts = <<>>
    /\ mode = "none"
    /\ stages = <<>>
    /\ fetched = <<>>
    /\ stage_companies \in NarratorStageMaps
    /\ summary = NoSummary
    /\ thread_ts = "none"

NextNarrator == \E o \in {"ok", "transport_error"}, t \in BackendTexts : GenerateReport(o, t)

SpecNarrator == InitNarrator /\ [][NextNarrator]_vars

\* an Enhanced report run, or a call of the narrator of llm_reporter.py
InitNarrative == InitReport \/ InitNarrator
NextNarrative == NextReport \/ NextNarrator
SpecNarrative == InitNarrative /\ [][NextNarrative]_vars

(***************************************************************************)
(* Calendar as the claims read it: counting days one at a time.            *)
(***************************************************************************)
NextDay(a) ==
    IF a.d < DaysInMonth(a.y, a.m) THEN Date(a.y, a.m, a.d + 1)
    ELSE IF a.m < 12 THEN Date(a.y, a.m + 1, 1)
    ELSE Date(a.y + 1, 1, 1)

Before(a, b) ==
    \/ a.y < b.y
    \/ a.y = b.y /\ a.m < b.m
    \/ a.y = b.y /\ a.m = b.m /\ a.d < b.d

RECURSIVE StepsBetween(_, _)
StepsBetween(a, b) == IF ~Before(a, b) THEN 0 ELSE 1 + StepsBetween(NextDay(a), b)

\* b - a in days, signed
SignedDays(a, b) == IF Before(b, a) THEN 0 - StepsBetween(b, a) ELSE StepsBetween(a, b)

\* the field holds 'YYYY-MM-DD' naming a day of the calendar, bare or wrapped
HoldsDate(v) ==
    /\ v.t \in {"str", "dict"}
    /\ v.s.k = "date"
    /\ v.s.m \in 1..12
    /\ v.s.d \in 1..DaysInMonth(v.s.y, v.s.m)

DateOfStr(s) == Date(s.y, s.m, s.d)

DeadlineEventsOf(i) == {j \in 1..Len(deadline_alerts) : deadline_alerts[j].deal.id = i}
StagnationEventsOf(i) == {j \in 1..Len(stagnation_alerts) : stagnation_alerts[j].deal.id = i}

DeadlineChecked == pc \notin {"alert_validate", "get_deals", "check_deadline"}
StagnationChecked == DeadlineChecked /\ pc # "check_stagnation"

\* C1: once check_deadline_alerts has run, a deal whose deadline field parses as
\* a date T has a deadline event iff (T - today).days is 3, 1, 0 or negative, it
\* has at most one, and the event's days_until is (T - today).days.
C1_DeadlineIff ==
    DeadlineChecked =>
        \A i \in 1..Len(deals) :
            HoldsDate(deals[i].hd) =>
                LET n == SignedDays(today, DateOfStr(deals[i].hd.s))
                IN  /\ (DeadlineEventsOf(i) # {}) <=> (n \in {3, 1, 0} \/ n < 0)
                    /\ Cardinality(DeadlineEventsOf(i)) <= 1
                    /\ \A j \in DeadlineEventsOf(i) :
                           /\ deadline_alerts[j].days_until = n
                           /\ deadline_alerts[j].alert_type = "deadline"

\* a run where one dated deal alerts three days ahead, and another dated deal
\* (two days ahead or more than three) yields nothing
C1_Witness ==
    /\ DeadlineChecked
    /\ \E j \in 1..Len(deadline_alerts) : deadline_alerts[j].days_until = 3
    /\ \E i \in 1..Len(deals) : HoldsDate(deals[i].hd) /\ DeadlineEventsOf(i) = {}

\* the stage-entry time names an instant: an ISO timestamp with a UTC offset
HoldsInstant(v) ==
    /\ v.t = "str"
    /\ v.s.k = "datetime"
    /\ v.s.off \in {"Z", "+00:00", "+09:00"}
    /\ v.s.m \in 1..12
    /\ v.s.d \in 1..DaysInMonth(v.s.y, v.s.m)

Epoch == Date(2024, 1, 1)
HoursSinceEpoch(s) ==
    (SignedDays(Epoch, DateOfStr(s)) * 24) + s.hh - (IF s.off = "+09:00" THEN 9 ELSE 0)

\* floor((N - S) in days)
WholeDays(n, s) == (HoursSinceEpoch(n) - HoursSinceEpoch(s)) \div 24

\* C2: once check_stagnation_alerts has run, a deal with stage-entry instant S has
\* a stagnation event iff floor(now - S) in days is exactly 3, 7, 14 or 30, and
\* the event's stagnation_days is that count.
C2_StagnationIff ==
    StagnationChecked =>
        \A i \in 1..Len(deals) :
            HoldsInstant(deals[i].sct) =>
                LET n == WholeDays(now, deals[i].sct.s)
                IN  /\ (StagnationEventsOf(i) # {}) <=> (n \in {3, 7, 14, 30})
                    /\ \A j \in StagnationEventsOf(i) :
                           stagnation_alerts[j].stagnation_days = n

\* C2 restricted to the runs in which check_stagnation_alerts returned
C2_WhenReturned ==
    (StagnationChecked /\ ~check_stagnation_alerts(deals, now).raised) =>
        \A i \in 1..Len(deals) :
            HoldsInstant(deals[i].sct) =>
                LET n == WholeDays(now, deals[i].sct.s)
                IN  /\ (StagnationEventsOf(i) # {}) <=> (n \in {3, 7, 14, 30})
                    /\ \A j \in StagnationEventsOf(i) :
                           stagnation_alerts[j].stagnation_days = n

(***************************************************************************)
(* The report run as the claims read it.                                   *)
(***************************************************************************)
Grouped == run = "report" /\ pc \notin {"report_validate", "get_stages", "group"}
        /\ stage_companies # <<>>

\* t is s without its leading and trailing whitespace
IsTrimOf(t, s) ==
    \E a \in 1..(Len(s) + 1), b \in 0..Len(s) :
        /\ t = SubSeq(s, a, b)
        /\ \A j \in 1..Len(s) : (j < a \/ j > b) => s[j] \in Whitespace
        /\ t # <<>> => (t[1] \notin Whitespace /\ t[Len(t)] \notin Whitespace)

\* the trimmed, non-empty titles among the deals ds
TrimmedTitles(ds) ==
    {t \in UNION {{SubSeq(ds[j].s, a, b) : a \in 1..(Len(ds[j].s) + 1), b \in 0..Len(ds[j].s)} :
                     j \in 1..Len(ds)} :
        /\ t # <<>>
        /\ \E j \in 1..Len(ds) : ds[j].has /\ IsTrimOf(t, ds[j].s)}

\* the collection stage_companies holds under a stage name
StoredFor(name) ==
    LET j == CHOOSE j \in 1..Len(stage_companies) : stage_companies[j].name = name
    IN  stage_companies[j].companies

SeqToSet(s) == {s[j] : j \in 1..Len(s)}

\* C3: once group_companies_by_stage has returned, the collection stored for each
\* stage is exactly the set of trimmed, non-empty titles of the deals fetched for
\* that stage, each title once.
C3_StageCollection ==
    Grouped =>
        \A i \in 1..Len(stages) :
            /\ \E j \in 1..Len(stage_companies) : stage_companies[j].name = StageNameOf(stages[i])
            /\ SeqToSet(StoredFor(StageNameOf(stages[i]))) = TrimmedTitles(fetched[i])
            /\ Len(StoredFor(StageNameOf(stages[i])))
                   = Cardinality(SeqToSet(StoredFor(StageNameOf(stages[i]))))

StageNamesDistinct ==
    \A i, j \in 1..Len(stages) : i # j => StageNameOf(stages[i]) # StageNameOf(stages[j])

\* what group_companies_by_stage does guarantee: the above when no two stages
\* share a display name
C3_WhenNamesDistinct == StageNamesDistinct => C3_StageCollection

\* C4: once group_companies_by_stage has returned, stage_companies has exactly one
\* entry per input stage, stages without deals included, and its entries follow
\* the stages in ascending order_nr.
C4_OneEntryPerStage ==
    Grouped =>
        /\ Len(stage_companies) = Len(stages)
        /\ \A i \in 1..Len(stages) :
               /\ stage_companies[i].name = StageNameOf(stages[i])
               /\ fetched[i] = <<>> => stage_companies[i].companies = <<>>
        /\ \A i, j \in 1..Len(stages) : i < j => stages[i].order_nr <= stages[j].order_nr

C4_WhenNamesDistinct == StageNamesDistinct => C4_OneEntryPerStage

(***************************************************************************)
(* Delivery in the alert run.                                              *)
(***************************************************************************)
Failed(o) == o # "ok"

OkPosts == {k \in 1..Len(posts) : posts[k].outcome = "ok"}
FailedPosts == {k \in 1..Len(posts) : Failed(posts[k].outcome)}

\* C5: whatever deliveries fail, the alert run attempts one delivery per alert
\* event, in list order, and ends normally: while the loop runs every earlier
\* event has been attempted, and the run ends with exit status 0 after one
\* attempt per event.
C5_DeliveryIndependent ==
    run = "alert" =>
        /\ pc = "send" => (Running /\ Len(posts) = idx - 1)
        /\ (pc = "exited" /\ all_alerts # <<>>) =>
               /\ exit_code = 0
               /\ Len(posts) = Len(all_alerts)
        /\ \A k \in 1..Len(posts) : posts[k].alert = all_alerts[k]

\* a finished run of three events or more whose first delivery raised a
\* transport error, whose second got a non-ok answer, and whose third succeeded
C5_Witness ==
    /\ run = "alert"
    /\ pc = "exited"
    /\ Len(posts) >= 3
    /\ posts[1].outcome = "transport_error"
    /\ posts[2].outcome = "not_ok"
    /\ posts[3].outcome = "ok"

\* the counts a finished run has logged
LoggedCounts(msg) == {log[k].n : k \in {j \in 1..Len(log) : log[j].msg = msg}}

\* C6: a finished alert run that delivered a batch has reported the number of
\* successful and the number of failed deliveries, equal to the outcomes.
C6_ReportsCounts ==
    (run = "alert" /\ pc = "exited" /\ posts # <<>>) =>
        /\ LoggedCounts("deliveries_succeeded") = {Cardinality(OkPosts)}
        /\ LoggedCounts("deliveries_failed") = {Cardinality(FailedPosts)}

\* what the run does log: the total before the loop, and one line per delivery
C6_LogsPerDelivery ==
    (run = "alert" /\ pc = "exited" /\ posts # <<>>) =>
        /\ LoggedCounts("total_alerts") = {Len(posts)}
        /\ Cardinality({k \in 1..Len(log) : log[k].msg = "slack_post_ok"})
               = Cardinality(OkPosts)
        /\ Cardinality({k \in 1..Len(log) : log[k].level = "error"})
               = Cardinality(FailedPosts)

(***************************************************************************)
(* Delivery in the report run.                                             *)
(***************************************************************************)
Followups == {k \in 1..Len(posts) : posts[k].kind = "followup"}

C8_FollowupFailureTolerated ==
    (run = "report" /\ mode = "enhanced" /\ pc = "exited"
        /\ posts # <<>> /\ posts[1].outcome = "ok") =>
        /\ Len(posts) = Len(stage_companies) + 1
        /\ exit_code = 0

\* the part of C8 the code keeps: a non-ok answer to a follow-up is tolerated
C8_NonOkTolerated ==
    (run = "report" /\ mode = "enhanced" /\ pc = "exited"
        /\ posts # <<>> /\ posts[1].outcome = "ok"
        /\ \A k \in Followups : ~Raises(posts[k].outcome)) =>
        /\ Len(posts) = Len(stage_companies) + 1
        /\ exit_code = 0

LegacyDelivered == run = "report" /\ mode = "legacy" /\ pc = "exited" /\ stage_companies # <<>>

\* C9 as claimed: a Legacy run that reaches delivery makes exactly one delivery
\* call, and ends with status 0 only when the webhook reported success ('ok').
C9_LegacyAsClaimed ==
    LegacyDelivered =>
        /\ Len(posts) = 1
        /\ posts[1].kind = "webhook"
        /\ exit_code # 0 <=> posts[1].outcome # "ok"

\* C9 (amended): a Legacy run that reaches delivery makes exactly one webhook
\* call; it ends with a non-zero status exactly when the call raised a transport
\* error or got an HTTP error status, and with status 0 on every HTTP success,
\* whether or not the body is the 'ok' acknowledgement.  Before delivery a
\* Legacy run has made no delivery call.
C9_LegacySingleShot ==
    (run = "report" /\ mode = "legacy") =>
        /\ Len(posts) <= 1
        /\ Cardinality({k \in 1..Len(net) : net[k].api \in {"webhook", "chat"}}) = Len(posts)
        /\ LegacyDelivered =>
               /\ Len(posts) = 1
               /\ posts[1].kind = "webhook"
               /\ exit_code = 1 <=> posts[1].outcome \in {"http_error", "transport_error"}
               /\ exit_code = 0 <=> posts[1].outcome \in {"ok", "not_ok"}

\* a Legacy run that ended with status 0 on an answer that was not 'ok'
C9_Witness ==
    /\ LegacyDelivered
    /\ exit_code = 0
    /\ posts[1].outcome = "not_ok"

(***************************************************************************)
(* Configuration.                                                          *)
(***************************************************************************)
\* a required value is missing, as the configuration surface states it
AlertConfigMissing ==
    \E v \in {"PIPEDRIVE_API_TOKEN", "PIPELINE_ID", "SLACK_BOT_TOKEN", "SLACK_CHANNEL"} :
        v \notin cfg

ReportConfigMissing ==
    \/ "PIPEDRIVE_API_TOKEN" \notin cfg
    \/ "PIPELINE_ID" \notin cfg
    \/ /\ ~({"SLACK_BOT_TOKEN", "SLACK_CHANNEL", "GEMINI_API_KEY"} \subseteq cfg)
       /\ "SLACK_WEBHOOK_URL" \notin cfg

ConfigMissing ==
    \/ run = "alert" /\ AlertConfigMissing
    \/ run = "report" /\ ReportConfigMissing

Validated == pc \notin {"alert_validate", "report_validate"}

\* C10: in both runs, with a required configuration value missing, the run has
\* made no network call while it validates, and once validation is over it has
\* exited with status 1 without any network call or delivery.
C10_MissingConfigFatal ==
    ConfigMissing =>
        /\ net = <<>>
        /\ posts = <<>>
        /\ Validated => (pc = "exited" /\ exit_code = 1)

\* an alert run that exited on a configuration lacking only the channel
C10_Witness ==
    /\ run = "alert"
    /\ cfg = {"PIPEDRIVE_API_TOKEN", "PIPELINE_ID", "SLACK_BOT_TOKEN"}
    /\ pc = "exited"
    /\ exit_code = 1
    /\ net = <<>>

(***************************************************************************)
(* Malformed fields during classification.                                 *)
(***************************************************************************)
\* the days_until of the deadline events check_deadline_alerts gives deal i alone
DeadlineAlone(i) ==
    LET a == check_deadline_alerts(<<deals[i]>>, today, HandoverKeySet)
    IN  [j \in 1..Len(a) |-> a[j].days_until]

\* the stagnation_days of the events check_stagnation_alerts gives deal i alone;
\* a deal on which the function raises yields no event
StagnationAlone(i) ==
    LET r == check_stagnation_alerts(<<deals[i]>>, now)
    IN  IF r.raised THEN <<>> ELSE [j \in 1..Len(r.alerts) |-> r.alerts[j].stagnation_days]

RECURSIVE DeadlineDaysOf(_, _)
DeadlineDaysOf(i, k) ==
    IF k > Len(deadline_alerts) THEN <<>>
    ELSE IF deadline_alerts[k].deal.id = i
         THEN <<deadline_alerts[k].days_until>> \o DeadlineDaysOf(i, k + 1)
         ELSE DeadlineDaysOf(i, k + 1)

RECURSIVE StagnationDaysOf(_, _)
StagnationDaysOf(i, k) ==
    IF k > Len(stagnation_alerts) THEN <<>>
    ELSE IF stagnation_alerts[k].deal.id = i
         THEN <<stagnation_alerts[k].stagnation_days>> \o StagnationDaysOf(i, k + 1)
         ELSE StagnationDaysOf(i, k + 1)

\* a value of the kinds the claim lists, from which no date / instant is read
MalformedDeadline(v) == ~HoldsDate(v)
MalformedStageTime(v) == ~HoldsInstant(v)

\* C11: whatever the deadline field and stage_change_time of the deals hold,
\* classification does not end the run with an error, and once both rules have
\* run every deal has exactly the deadline events and exactly the stagnation
\* events it yields when classified alone (none for a rule whose field is
\* malformed).
C11_ClassificationNeverAborts ==
    (run = "alert" /\ StagnationChecked) =>
        /\ ~(exit_code = 1 /\ posts = <<>>)
        /\ \A i \in 1..Len(deals) :
               /\ DeadlineDaysOf(i, 1) = DeadlineAlone(i)
               /\ StagnationDaysOf(i, 1) = StagnationAlone(i)
               /\ MalformedDeadline(deals[i].hd) => DeadlineDaysOf(i, 1) = <<>>
               /\ MalformedStageTime(deals[i].sct) => StagnationDaysOf(i, 1) = <<>>

\* what the code keeps: the above in every run whose deals carry no parseable
\* stage_change_time without a UTC offset
NoNaiveStageTime ==
    \A i \in 1..Len(deals) :
        ~(deals[i].sct.t = "str" /\ FromIsoOk(deals[i].sct.s) /\ ~Aware(deals[i].sct.s))

C11_WhenNoNaiveStageTime == NoNaiveStageTime => C11_ClassificationNeverAborts

\* a malformed deadline next to a deal that still gets its deadline event, and
\* a malformed stage_change_time next to a deal that still gets its stagnation event
C11_MalformedSkipped ==
    /\ StagnationChecked
    /\ NoNaiveStageTime
    /\ \E i, j \in 1..Len(deals) :
           /\ deals[i].hd = Str(TextStr) /\ deals[j].sct.t = "str" /\ deals[j].sct.s.k = "text"
           /\ deadline_alerts # <<>>
           /\ stagnation_alerts # <<>>

(***************************************************************************)
(* Fetch failures in the report run.                                       *)
(***************************************************************************)
\* the deal fetch of stage i of the list failed
FetchFailed(i) ==
    \E k \in 1..Len(log) : log[k] = LogRec("error", "stage_deals", stages[i].id)

StageDealCalls == {k \in 1..Len(net) : net[k].api = "stage_deals"}
DeliveryCalls == {k \in 1..Len(net) : net[k].api \in {"chat", "webhook"}}

\* the run ended with a non-zero status before any delivery was attempted
FatalBeforeDelivery == pc = "exited" /\ exit_code # 0 /\ DeliveryCalls = {}

\* C12: in a report run with a valid configuration, a stage whose deal fetch
\* failed is left with an empty company collection, the run goes on to fetch
\* every remaining stage and to deliver, and the run ends fatally with nothing
\* delivered if and only if the initial stage-list fetch failed or gave no stage.
C12_FetchFailureDegrades ==
    (run = "report" /\ mode # "none") =>
        /\ FatalBeforeDelivery <=> (pc = "exited" /\ stages = <<>>)
        /\ pc = "group" => (Running /\ Cardinality(StageDealCalls) = idx - 1)
        /\ Grouped =>
               /\ Cardinality(StageDealCalls) = Len(stages)
               /\ pc = "exited" => DeliveryCalls # {}
               /\ \A i \in 1..Len(stages) :
                      FetchFailed(i) =>
                          /\ \E j \in 1..Len(stage_companies) :
                                 stage_companies[j].name = StageNameOf(stages[i])
                          /\ StoredFor(StageNameOf(stages[i])) = <<>>

\* what the code keeps: the above whenever no two stages share a display name
C12_WhenNamesDistinct == StageNamesDistinct => C12_FetchFailureDegrades

\* a run that delivered and ended well although the fetch of its first stage
\* failed and the fetch of its second stage returned deals
C12_DegradedRun ==
    /\ run = "report"
    /\ pc = "exited"
    /\ exit_code = 0
    /\ Len(stages) = 2
    /\ StageNamesDistinct
    /\ FetchFailed(1)
    /\ ~FetchFailed(2)
    /\ fetched[2] # <<>>

(***************************************************************************)
(* Narrative generation.                                                   *)
(***************************************************************************)
\* the narrative of the Enhanced run failed: main() logged the error
NarrativeFailed == \E k \in 1..Len(log) : log[k].msg = "summary_failed"

\* the number of companies over all entries of the stage map
CompanyCount ==
    Cardinality(UNION {{<<j, c>> : c \in 1..Len(stage_companies[j].companies)} :
                          j \in 1..Len(stage_companies)})

\* every delivery of the Enhanced run went through: the parent answered ok and
\* no follow-up raised
DeliveredThrough ==
    /\ posts # <<>>
    /\ posts[1].outcome = "ok"
    /\ \A k \in Followups : ~Raises(posts[k].outcome)

\* C13: narrative generation is never fatal.  The narrator of llm_reporter.py
\* returns a fixed text when the key is absent or the backend raises.  In an
\* Enhanced run the step after the narrative is always the parent delivery; a
\* failed narrative is replaced by the fallback text, a function of the stage
\* map alone, which the parent carries; the follow-ups go out as in any run, and
\* the exit status is 0 exactly when the deliveries went through.
C13_NarrativeNeverFatal ==
    /\ (run = "narrator" /\ pc = "returned") =>
           /\ "GOOGLE_API_KEY" \notin cfg => summary = Summary("disabled", <<>>, 0)
           /\ (\E k \in 1..Len(log) : log[k].level = "error") => summary = Summary("error", <<>>, 0)
    /\ (run = "report" /\ mode = "enhanced") =>
           /\ (pc = "exited" /\ stage_companies # <<>>) => posts # <<>>
           /\ NarrativeFailed =>
                  /\ summary = Summary("fallback", <<>>, CompanyCount)
                  /\ pc = "send_parent" => Running
           /\ posts # <<>> => (posts[1].kind = "parent" /\ posts[1].text = summary)
           /\ (pc = "exited" /\ posts # <<>>) =>
                  /\ exit_code = 0 <=> DeliveredThrough
                  /\ exit_code = 0 => Len(posts) = Len(stage_companies) + 1

\* an Enhanced run whose narrative failed and which ended well after the parent,
\* carrying the fallback that counts two companies, and two follow-ups
C13_Witness ==
    /\ run = "report"
    /\ mode = "enhanced"
    /\ NarrativeFailed
    /\ pc = "exited"
    /\ exit_code = 0
    /\ Len(posts) = 3
    /\ posts[1].text = Summary("fallback", <<>>, 2)

(***************************************************************************)
(* Thread anchors of alert deliveries.                                     *)
(***************************************************************************)
\* the deal's thread-anchor field holds a non-empty value: a non-empty string,
\* or an object whose value member is one
HasAnchor(v) ==
    \/ v.t = "str" /\ v.s.k \notin {"none", "empty"}
    \/ v.t = "dict" /\ v.s.k \notin {"none", "empty"}

ThreadKeyConfigured == "SLACK_THREAD_TS_FIELD_KEY" \in cfg

\* C14: every alert delivery is a threaded reply carrying the deal's anchor if
\* and only if the thread-anchor field is configured and the deal holds a
\* non-empty value for it; otherwise it carries no thread anchor.
C14_ThreadedIffAnchor ==
    run = "alert" =>
        \A k \in 1..Len(posts) :
            LET v == posts[k].alert.deal.tts
            IN  IF ThreadKeyConfigured /\ HasAnchor(v)
                THEN posts[k].thread_ts = v.s
                ELSE posts[k].thread_ts = NoneStr

\* what the code keeps: the above for deals whose anchor field is not an object
\* with a null value member
C14_WhenNoNullMember ==
    run = "alert" =>
        \A k \in 1..Len(posts) :
            LET v == posts[k].alert.deal.tts
            IN  v # WrappedNull =>
                    IF ThreadKeyConfigured /\ HasAnchor(v)
                    THEN posts[k].thread_ts = v.s
                    ELSE posts[k].thread_ts = NoneStr

\* a threaded reply and a top-level message in one run with the field configured
C14_BothKinds ==
    /\ run = "alert"
    /\ ThreadKeyConfigured
    /\ \E k \in 1..Len(posts) : posts[k].thread_ts = TextStr /\ posts[k].alert.deal.tts = ThreadB
    /\ \E k \in 1..Len(posts) : posts[k].thread_ts = NoneStr

(***************************************************************************)
(* The narrator of llm_reporter.py.                                        *)
(***************************************************************************)
NarratorReturned == run = "narrator" /\ pc = "returned"
KeyPresent == "GOOGLE_API_KEY" \in cfg
SomeStageHasCompany == \E j \in 1..Len(stage_companies) : stage_companies[j].companies # {}

\* the prompt names stage j and every company of it
PromptNames(prompt, j) ==
    \E l \in 1..Len(prompt) :
        /\ prompt[l].stage = stage_companies[j].name
        /\ \A c \in stage_companies[j].companies :
               \E q \in 1..Len(prompt[l].listed) : prompt[l].listed[q] = c

\* C15: one call of generate_report asks the backend to generate at most once,
\* and only with a key present and some stage holding a company.  In that case
\* it asks exactly once, with a prompt naming every stage and every company,
\* and returns the text the backend answered, unchanged.  With every stage
\* empty it returns the no-deals message, with the key absent the disabled
\* message, in both cases without a call.
C15_BackendAtMostOnce ==
    run = "narrator" =>
        /\ Len(net) <= 1
        /\ pc = "generate_report" => net = <<>>
        /\ NarratorReturned =>
               /\ net # <<>> <=> (KeyPresent /\ SomeStageHasCompany)
               /\ net # <<>> =>
                      /\ net[1].api = "gemini"
                      /\ \A j \in 1..Len(stage_companies) : PromptNames(net[1].arg.prompt, j)
                      /\ summary.src = "llm" => summary.text = net[1].arg.answer
                      /\ summary.src \in {"llm", "error"}
               /\ (KeyPresent /\ ~SomeStageHasCompany) => summary = Summary("no_deals", <<>>, 0)
               /\ ~KeyPresent => summary = Summary("disabled", <<>>, 0)

\* a call with a key and the stage map of the test (two companies in the first
\* stage, none in the second) that returned the backend's text with its
\* surrounding whitespace
C15_Witness ==
    /\ NarratorReturned
    /\ KeyPresent
    /\ Len(stage_companies) = 2
    /\ stage_companies[1].companies = NarratorCompanies
    /\ stage_companies[2].companies = {}
    /\ Len(net) = 1
    /\ summary = Summary("llm", <<32, 79, 75, 32, 10>>, 0)

(***************************************************************************)
(* Delivery mode of the report run.                                        *)
(***************************************************************************)
CrmConfigured == {"PIPEDRIVE_API_TOKEN", "PIPELINE_ID"} \subseteq cfg
EnhancedCredentials == {"SLACK_BOT_TOKEN", "GEMINI_API_KEY", "SLACK_CHANNEL"} \subseteq cfg
WebhookConfigured == "SLACK_WEBHOOK_URL" \in cfg

ExitedOnConfig == pc = "exited" /\ exit_code = 1 /\ mode = "none" /\ net = <<>>

\* what each mode sends: Enhanced a parent and threaded follow-ups through the
\* bot API, Legacy one webhook message and nothing to the narrative backend
ModeDelivers ==
    /\ mode = "enhanced" =>
           /\ \A k \in 1..Len(posts) : posts[k].kind \in {"parent", "followup"}
           /\ \A k \in 1..Len(net) : net[k].api # "webhook"
           /\ \A k \in Followups : posts[k].thread_ts = thread_ts /\ posts[1].kind = "parent"
    /\ mode = "legacy" =>
           /\ Len(posts) <= 1
           /\ \A k \in 1..Len(posts) : posts[k].kind = "webhook"
           /\ \A k \in 1..Len(net) : net[k].api \notin {"chat", "gemini"}

\* C16: with CRM token and pipeline id set, once validation is over the run is
\* Enhanced when bot token, narrative key and channel are all set, Legacy when
\* they are not all set and a webhook URL is set, and has exited fatally
\* otherwise; each mode delivers in its own style.
C16_ModeByConfig ==
    (run = "report" /\ Validated /\ CrmConfigured) =>
        /\ IF EnhancedCredentials THEN mode = "enhanced"
           ELSE IF WebhookConfigured THEN mode = "legacy"
           ELSE ExitedOnConfig
        /\ ModeDelivers

\* what validate_env_vars does: bot token and narrative key without a channel
\* is fatal, webhook URL or not
C16_ModeAsCoded ==
    (run = "report" /\ Validated /\ CrmConfigured) =>
        /\ IF EnhancedCredentials THEN mode = "enhanced"
           ELSE IF {"SLACK_BOT_TOKEN", "GEMINI_API_KEY"} \subseteq cfg THEN ExitedOnConfig
           ELSE IF WebhookConfigured THEN mode = "legacy"
           ELSE ExitedOnConfig
        /\ ModeDelivers

\* a run of each mode that delivered: a Legacy run with a bot token but no
\* narrative key, or an Enhanced run with a webhook URL set as well
C16_BothModesDeliver ==
    /\ run = "report"
    /\ pc = "exited"
    /\ exit_code = 0
    /\ \/ mode = "legacy" /\ "SLACK_BOT_TOKEN" \in cfg
       \/ mode = "enhanced" /\ WebhookConfigured /\ Len(posts) = 3

(***************************************************************************)
(* Order of the alert events.                                              *)
(***************************************************************************)
\* both rules have run and main() went on: the list of events exists
ListBuilt == run = "alert" /\ StagnationChecked /\ ~(pc = "exited" /\ exit_code = 1)

SatisfiesDeadline(i) ==
    /\ HoldsDate(deals[i].hd)
    /\ LET n == SignedDays(today, DateOfStr(deals[i].hd.s)) IN n \in {3, 1, 0} \/ n < 0

SatisfiesStagnation(i) ==
    /\ HoldsInstant(deals[i].sct)
    /\ WholeDays(now, deals[i].sct.s) \in {3, 7, 14, 30}

\* positions of all_alerts holding an event of the given kind for deal i
EventsAt(kind, i) ==
    {k \in 1..Len(all_alerts) : all_alerts[k].alert_type = kind /\ all_alerts[k].deal.id = i}

\* C17: the list of events to deliver is the deadline events, in the order of
\* the fetched deals, followed by the stagnation events, in the order of the
\* fetched deals; a deal satisfying both rules has one event in each part; and
\* the deliveries are made in the order of the list, one per event.
C17_DeadlineThenStagnation ==
    ListBuilt =>
        /\ \A k, l \in 1..Len(all_alerts) :
               k < l =>
                   /\ all_alerts[k].alert_type = "stagnation" => all_alerts[l].alert_type = "stagnation"
                   /\ all_alerts[k].alert_type = all_alerts[l].alert_type =>
                          all_alerts[k].deal.id < all_alerts[l].deal.id
        /\ \A k \in 1..Len(all_alerts) :
               /\ all_alerts[k].alert_type \in {"deadline", "stagnation"}
               /\ all_alerts[k].deal = deals[all_alerts[k].deal.id]
        /\ \A i \in 1..Len(deals) :
               /\ Cardinality(EventsAt("deadline", i)) = IF SatisfiesDeadline(i) THEN 1 ELSE 0
               /\ Cardinality(EventsAt("stagnation", i)) = IF SatisfiesStagnation(i) THEN 1 ELSE 0
        /\ Len(posts) <= Len(all_alerts)
        /\ \A k \in 1..Len(posts) : posts[k].alert = all_alerts[k]
        /\ pc = "exited" => Len(posts) = Len(all_alerts)

\* a finished run over two deals that each satisfy both rules: four deliveries,
\* deadline of deal 1, deadline of deal 2, stagnation of deal 1, stagnation of deal 2
C17_Witness ==
    /\ ListBuilt
    /\ pc = "exited"
    /\ Len(posts) = 4
    /\ posts[1].alert.alert_type = "deadline" /\ posts[1].alert.deal.id = 1
    /\ posts[2].alert.alert_type = "deadline" /\ posts[2].alert.deal.id = 2
    /\ posts[3].alert.alert_type = "stagnation" /\ posts[3].alert.deal.id = 1
    /\ posts[4].alert.alert_type = "stagnation" /\ posts[4].alert.deal.id = 2

(***************************************************************************)
(* Rendering of deadline alerts.                                           *)
(***************************************************************************)
DeadlinePosts == {k \in 1..Len(posts) : posts[k].alert.alert_type = "deadline"}

\* the display name the stage lookup of a delivery resolved to
ResolvedStage(k) ==
    IF posts[k].alert.deal.stage_id = 0 THEN {UnknownStage}
    ELSE {StageDisplay("name", posts[k].alert.deal.stage_id),
          StageDisplay("fallback", posts[k].alert.deal.stage_id)}

\* C18: the message of every deadline event takes its status from days_until:
\* negative gives the overdue status with the count |days_until| and the
\* high-urgency marker, 0 due today, 1 due tomorrow, more than 1 due in
\* days_until days with the low-urgency marker; and the body holds the deal's
\* title, the target date and the stage display name.
C18_DeadlineStatus ==
    run = "alert" =>
        \A k \in DeadlinePosts :
            LET n == posts[k].alert.days_until
                m == posts[k].text
            IN  /\ n < 0 => (m.status = "overdue" /\ m.urgency = "siren"
                                /\ m.count > 0 /\ m.count + n = 0)
                /\ n = 0 => m.status = "due_today"
                /\ n = 1 => m.status = "due_tomorrow"
                /\ n > 1 => (m.status = "due_in_days" /\ m.urgency = "calendar" /\ m.count = n)
                /\ m.kind = "deadline"
                /\ posts[k].alert.deal.title # NoTitle => m.title = posts[k].alert.deal.title
                /\ HoldsDate(posts[k].alert.deal.hd)
                /\ m.date = posts[k].alert.deal.hd.s
                /\ m.stage_name \in ResolvedStage(k)

\* the delivery of an event two days overdue, for a deal without title whose
\* stage lookup failed: the message quotes 2 days under the high-urgency marker
C18_Witness ==
    /\ run = "alert"
    /\ \E k \in DeadlinePosts :
           /\ posts[k].alert.days_until = -2
           /\ posts[k].text.status = "overdue"
           /\ posts[k].text.count = 2
           /\ posts[k].text.title = DefaultTitle
           /\ posts[k].text.stage_name = StageDisplay("fallback", 2)

(***************************************************************************)
(* Stage-name lookups.                                                     *)
(***************************************************************************)
StageLookupsOf(id) == {k \in 1..Len(net) : net[k].api = "stage" /\ net[k].arg = id}

\* C19: within one alert run the stage-name lookup is called at most once per
\* stage id, however many events refer to the stage.
C19_LookupOncePerStage ==
    run = "alert" => \A id \in 1..3 : Cardinality(StageLookupsOf(id)) <= 1

\* what the code does: one lookup per delivered event with a stage id
C19_LookupPerEvent ==
    run = "alert" =>
        \A id \in 1..3 :
            Cardinality(StageLookupsOf(id))
                = Cardinality({k \in 1..Len(posts) : posts[k].alert.deal.stage_id = id})
====
